---------------------------- MODULE Spec2Model ----------------------------
(***************************************************************************)
(* Model of src/src/gurobi_optimods/opf/graphics.py: the plotting API of   *)
(* the OPF mod (solution_plot, violation_plot), the layout resolver        *)
(* (_get_coords, _coords_from_sfdp, _coords_circle) and the styling        *)
(* helpers (_restyle_annotations, _tune_traces).                           *)
(*                                                                         *)
(* One call of one entry point is modelled per behaviour: Init draws the   *)
(* entry point, its arguments and the environment (temporary directory,    *)
(* disk, the sfdp executable), the actions run the call to its end.        *)
(* Each def statement is modelled on its own, as Python runs it once it   *)
(* is defined; solution_plot's def statement is one Python rejects.        *)
(***************************************************************************)
EXTENDS Integers, Sequences, FiniteSets, TLC

VARIABLES
    fn,         \* the entry point called
    pc,         \* the position of the call
    case,       \* the case: bus identifiers in file order, branches as count pairs
    coordsArg,  \* the coords argument: [given |-> FALSE] is None
    env,        \* the environment: temp directory, disk, sfdp executable
    calls,      \* functions and tools invoked so far by the call
    fs,         \* what exists on disk: the temporary directory and g.gv
    nread,      \* lines of the tool's output consumed by the parse loop
    x,          \* _coords_from_sfdp's dict x: node count -> x position
    y,          \* _coords_from_sfdp's dict y: node count -> y position
    failure,    \* what went wrong in the environment or the tool output
    raised,     \* the exception that left the entry point ("none": it returned)
    ret,        \* the coordinate map returned by the resolver, or handed to the normalizer
    args,       \* solution_plot's width, height, keep_obj; obj_text of a restyle
    built,      \* the figure as it was before the call touched it
    fig         \* the figure mutated and returned

vars == <<fn, pc, case, coordsArg, env, calls, fs, nread, x, y, failure,
          raised, ret, args, built, fig>>

-----------------------------------------------------------------------------
(* Bounds *)

\* Bus identifiers are 1..MaxBusId; a case has at most MaxBusId buses.
MaxBusId == 3
\* The tool's standard output has at most MaxLines lines.
MaxLines == 4

-----------------------------------------------------------------------------
(* Cases: converters.convert_case_to_internal_format *)

BusIdSet == 1..MaxBusId

Injective(s) == \A i, j \in DOMAIN s : s[i] = s[j] => i = j

\* Bus identifiers in the order of the case file, all distinct.
BusSeqs == { s \in UNION { [1..n -> BusIdSet] : n \in 0..MaxBusId } : Injective(s) }

\* Branches as (count_f, count_t): none, or a chain through the buses.
Chain(n) == { <<j, j + 1>> : j \in 1..(n - 1) }

Cases == { [bus |-> s, branches |-> b] : s \in BusSeqs, b \in {{}} }
           \cup { [bus |-> s, branches |-> Chain(Len(s))] : s \in { t \in BusSeqs : Len(t) >= 2 } }

numbuses(c) == Len(c.bus)

BusIds(c) == { c.bus[i] : i \in 1..Len(c.bus) }

\* alldata["IDtoCountmap"]: bus_i -> count, counts dense in 1..numbuses.
IDtoCountmap(c) == [ b \in BusIds(c) |-> CHOOSE i \in 1..Len(c.bus) : c.bus[i] = b ]

\* {v: k for k, v in IDtoCount.items()}
CountToID(c) == [ i \in 1..Len(c.bus) |-> c.bus[i] ]

NoMap == <<>>

\* Caller-supplied coordinate maps: a (lat, lon) per bus, or one bus short.
GivenMaps(c) ==
    LET full == [ b \in BusIds(c) |-> <<10 * b, 10 * b + 1>> ]
    IN  {full} \cup { [ b \in BusIds(c) \ {m} |-> full[b] ] : m \in BusIds(c) }

CoordsArgs(c) == {[given |-> FALSE, map |-> NoMap]}
                   \cup { [given |-> TRUE, map |-> m] : m \in GivenMaps(c) }

-----------------------------------------------------------------------------
(* Environment *)

\* tmp: a usable temporary directory exists; disk: writing g.gv succeeds;
\* sfdp: the executable is missing, not executable, exits non-zero, or works.
Envs == [ tmp : BOOLEAN, disk : BOOLEAN,
          sfdp : {"missing", "noexec", "fails", "works"} ]

NoFiles == [dir |-> FALSE, file |-> FALSE, text |-> <<>>]

-----------------------------------------------------------------------------
(* _coords_from_sfdp: the graph description *)

RECURSIVE SetToSortedSeq(_)
SetToSortedSeq(S) ==
    IF S = {} THEN <<>>
    ELSE LET m == CHOOSE a \in S : \A b \in S : a[1] < b[1] \/ (a[1] = b[1] /\ a[2] <= b[2])
         IN  <<m>> \o SetToSortedSeq(S \ {m})

\* lines 134-139: header, one node per bus count, one edge per branch, "}".
GraphLines(c) ==
    <<[kind |-> "graph G {", a |-> 0, b |-> 0],
      [kind |-> "node [shape=point, height=0, width=0, label=\"\"];", a |-> 0, b |-> 0]>>
    \o [ j \in 1..numbuses(c) |-> [kind |-> "node", a |-> j, b |-> 0] ]
    \o [ k \in 1..Cardinality(c.branches) |->
            [kind |-> "edge", a |-> SetToSortedSeq(c.branches)[k][1],
                              b |-> SetToSortedSeq(c.branches)[k][2]] ]
    \o <<[kind |-> "}", a |-> 0, b |-> 0]>>

\* A plausible slip: cleanup written after the tool call, without try/finally.
TemporaryDirectory_exit_leaky(f, e) == IF e = "none" THEN NoFiles ELSE f

\* line 141: leaving the `with tempfile.TemporaryDirectory()` block removes the
\* directory and everything in it, whether the block ends normally or by an
\* exception e.
TemporaryDirectory_exit(f, e) == NoFiles

-----------------------------------------------------------------------------
(* _get_coords: the except clause *)

\* line 189: except (FileNotFoundError, subprocess.CalledProcessError)
get_coords_catches(e) == e \in {"FileNotFoundError", "CalledProcessError"}

\* An exception e raised inside _coords_from_sfdp, seen from _get_coords:
\* caught, and the circular layout is next, or it leaves _get_coords.
PcAfterRaise(e) == IF get_coords_catches(e) THEN "circle" ELSE "done"
RaisedAfterRaise(e) == IF get_coords_catches(e) THEN "none" ELSE e

-----------------------------------------------------------------------------
(* The tool's standard output, as out.splitlines() and line.split() see it *)

\* Positions (x, y) the tool may print for a node.
Positions == { <<0 - 1, 4>>, <<2, 1>>, <<5, 2>> }

\* A token: num says whether int() / float() accepts it, v is its value.
Tok(v) == [num |-> TRUE, v |-> v]
BadTok == [num |-> FALSE, v |-> 0]

\* "node <id> <x> <y> <width> <height> <label> <style> <shape> <color> <fill>"
NodeLine(id, p) == [kw |-> "node", nparts |-> 11, id |-> Tok(id),
                    xs |-> Tok(p[1]), ys |-> Tok(p[2])]

\* Lines a tool run on a graph of n nodes may print: a position for a declared
\* node or for a node the graph does not have, and lines of other shapes.
OutLines(n) ==
    { NodeLine(id, p) : id \in 1..(n + 1), p \in Positions }
    \cup { [kw |-> "graph", nparts |-> 4, id |-> Tok(1), xs |-> Tok(7), ys |-> Tok(7)],
           [kw |-> "stop", nparts |-> 1, id |-> BadTok, xs |-> BadTok, ys |-> BadTok],
           [kw |-> "node", nparts |-> 3, id |-> Tok(1), xs |-> Tok(2), ys |-> BadTok],
           [kw |-> "node", nparts |-> 11, id |-> BadTok, xs |-> Tok(2), ys |-> Tok(1)],
           [kw |-> "node", nparts |-> 11, id |-> Tok(1), xs |-> BadTok, ys |-> Tok(1)] }

\* line 153: if len(parts) >= 4 and parts[0] == "node"
IsNodeLine(l) == l.nparts >= 4 /\ l.kw = "node"

\* d[k] = v on a dict
DictSet(d, k, v) == [ c \in DOMAIN d \cup {k} |-> IF c = k THEN v ELSE d[c] ]

Values(d) == { d[k] : k \in DOMAIN d }

Min(S) == CHOOSE m \in S : \A v \in S : m <= v

-----------------------------------------------------------------------------
(* _coords_from_sfdp: normalisation, lines 158-166 *)

\* Slips the normalisation could have: no axis swap, no shift to the origin,
\* keys left as node counts.
normalize_unswapped(c, xx, yy) ==
    LET minx == Min(Values(xx))
        miny == Min(Values(yy))
    IN  [ b \in { CountToID(c)[cnt] : cnt \in DOMAIN xx } |->
            <<xx[IDtoCountmap(c)[b]] - minx, yy[IDtoCountmap(c)[b]] - miny>> ]

normalize_by_count(c, xx, yy) ==
    LET minx == Min(Values(xx))
        miny == Min(Values(yy))
    IN  [ cnt \in DOMAIN xx |-> <<yy[cnt] - miny, xx[cnt] - minx>> ]

\* minx, miny = min(x.values()), min(y.values()); for each parsed count the
\* pair (Y - miny, X - minx) under the bus identifier CountToID[cnt].
normalize(c, xx, yy) ==
    LET minx == Min(Values(xx))
        miny == Min(Values(yy))
    IN  [ b \in { CountToID(c)[cnt] : cnt \in DOMAIN xx } |->
            <<yy[IDtoCountmap(c)[b]] - miny, xx[IDtoCountmap(c)[b]] - minx>> ]

-----------------------------------------------------------------------------
(* _coords_circle, lines 169-181 *)

\* R = 100.0
R == 100

RECURSIVE sorted(_)
sorted(S) ==
    IF S = {} THEN <<>>
    ELSE LET m == CHOOSE a \in S : \A b \in S : a <= b
         IN  <<m>> \o sorted(S \ {m})

Max(a, b) == IF a >= b THEN a ELSE b

\* r * f(2 * pi * num / den), f one of math.sin, math.cos: the angle is kept
\* exact, as the fraction num / den of a full turn.
Trig(f, r, num, den) == [f |-> f, r |-> r, num |-> num, den |-> den]

\* A slip: the buses taken in the order of IDtoCountmap, not sorted.
_coords_circle_unsorted(c) ==
    LET n == numbuses(c)
    IN  [ b \in BusIds(c) |->
            <<Trig("sin", R, IDtoCountmap(c)[b] - 1, Max(1, n)),
              Trig("cos", R, IDtoCountmap(c)[b] - 1, Max(1, n))>> ]

\* bus_ids = sorted(keys); for k, bus in enumerate(bus_ids):
\* theta = 2*pi*k/max(1, n); coords[bus] = (R*sin(theta), R*cos(theta))
_coords_circle(c) ==
    LET bus_ids == sorted(BusIds(c))
        n == Len(bus_ids)
    IN  [ b \in BusIds(c) |->
            LET k == (CHOOSE i \in 1..n : bus_ids[i] = b) - 1
            IN  <<Trig("sin", R, k, Max(1, n)), Trig("cos", R, k, Max(1, n))>> ]

-----------------------------------------------------------------------------
(* Actions of the layout resolver *)

\* An exception e raised inside _coords_from_sfdp for the reason why.
RaiseInSfdp(e, why) ==
    /\ failure' = why
    /\ pc' = PcAfterRaise(e)
    /\ raised' = RaisedAfterRaise(e)

\* lines 184-188: coords given: returned as is; None: try _coords_from_sfdp.
_get_coords ==
    /\ fn = "_get_coords" /\ pc = "call"
    /\ IF coordsArg.given
       THEN /\ ret' = coordsArg.map
            /\ pc' = "done"
            /\ UNCHANGED calls
       ELSE /\ pc' = "mktemp"
            /\ calls' = calls \cup {"_coords_from_sfdp"}
            /\ UNCHANGED ret
    /\ UNCHANGED <<fn, built, case, coordsArg, env, fs, nread, x, y, failure, raised, args, fig>>

\* lines 130-141: the case is converted, the graph lines are built and the
\* temporary directory is created; tempfile raises FileNotFoundError when no
\* usable temporary directory is found.
sfdp_mktemp ==
    /\ pc = "mktemp"
    /\ calls' = calls \cup {"convert_case_to_internal_format"}
    /\ IF env.tmp
       THEN /\ fs' = [dir |-> TRUE, file |-> FALSE, text |-> <<>>]
            /\ pc' = "write"
            /\ UNCHANGED <<failure, raised>>
       ELSE /\ RaiseInSfdp("FileNotFoundError", "no_tmpdir")
            /\ UNCHANGED fs
    /\ UNCHANGED <<fn, built, case, coordsArg, env, nread, x, y, ret, args, fig>>

\* lines 142-144: g.gv is written; a failed write leaves the with block.
sfdp_write ==
    /\ pc = "write"
    /\ IF env.disk
       THEN /\ fs' = [dir |-> TRUE, file |-> TRUE, text |-> GraphLines(case)]
            /\ pc' = "launch"
            /\ UNCHANGED <<failure, raised>>
       ELSE /\ fs' = TemporaryDirectory_exit(fs, "OSError")
            /\ RaiseInSfdp("OSError", "write_failed")
    /\ UNCHANGED <<fn, built, case, coordsArg, env, calls, nread, x, y, ret, args, fig>>

\* lines 145-148: subprocess.check_output starts sfdp: FileNotFoundError when
\* the executable is not found, PermissionError when it cannot be executed.
sfdp_launch ==
    /\ pc = "launch"
    /\ calls' = calls \cup {"subprocess.check_output"}
    /\ IF env.sfdp = "missing"
       THEN /\ fs' = TemporaryDirectory_exit(fs, "FileNotFoundError")
            /\ RaiseInSfdp("FileNotFoundError", "tool_not_found")
       ELSE IF env.sfdp = "noexec"
       THEN /\ fs' = TemporaryDirectory_exit(fs, "PermissionError")
            /\ RaiseInSfdp("PermissionError", "tool_not_executable")
       ELSE /\ pc' = "tool"
            /\ UNCHANGED <<fs, failure, raised>>
    /\ UNCHANGED <<fn, built, case, coordsArg, env, nread, x, y, ret, args, fig>>

\* lines 145-148: the tool ends; check_output raises CalledProcessError on a
\* non-zero status, else returns the output; either way the with block ends.
sfdp_tool_exit ==
    /\ pc = "tool"
    /\ IF env.sfdp = "fails"
       THEN /\ fs' = TemporaryDirectory_exit(fs, "CalledProcessError")
            /\ RaiseInSfdp("CalledProcessError", "tool_nonzero")
       ELSE /\ fs' = TemporaryDirectory_exit(fs, "none")
            /\ pc' = "parse"
            /\ UNCHANGED <<failure, raised>>
    /\ UNCHANGED <<fn, built, case, coordsArg, env, calls, nread, x, y, ret, args, fig>>

\* lines 151-156: one iteration of the parse loop on the next line of out.
sfdp_parse_line ==
    /\ pc = "parse" /\ nread < MaxLines
    /\ \E l \in OutLines(numbuses(case)) :
         /\ nread' = nread + 1
         /\ IF ~IsNodeLine(l)
            THEN UNCHANGED <<x, y, pc, failure, raised>>
            ELSE IF ~l.id.num
            THEN /\ RaiseInSfdp("ValueError", "bad_id")
                 /\ UNCHANGED <<x, y>>
            ELSE IF ~l.xs.num \/ ~l.ys.num
            THEN /\ RaiseInSfdp("ValueError", "bad_number")
                 /\ UNCHANGED <<x, y>>
            ELSE /\ x' = DictSet(x, l.id.v, l.xs.v)
                 /\ y' = DictSet(y, l.id.v, l.ys.v)
                 /\ UNCHANGED <<pc, failure, raised>>
    /\ UNCHANGED <<fn, built, case, coordsArg, env, calls, fs, ret, args, fig>>

\* lines 158-166: out is exhausted: min() of no value raises ValueError,
\* CountToID[cnt] of a count that is no bus raises KeyError.
sfdp_finish ==
    /\ pc = "parse"
    /\ IF DOMAIN x = {}
       THEN /\ RaiseInSfdp("ValueError", "no_nodes")
            /\ UNCHANGED ret
       ELSE IF \E cnt \in DOMAIN x : cnt \notin DOMAIN CountToID(case)
       THEN /\ RaiseInSfdp("KeyError", "unknown_count")
            /\ UNCHANGED ret
       ELSE /\ ret' = normalize(case, x, y)
            /\ pc' = "done"
            /\ UNCHANGED <<failure, raised>>
    /\ UNCHANGED <<fn, built, case, coordsArg, env, calls, fs, nread, x, y, args, fig>>

\* line 190: the fallback, after a caught exception.
get_coords_fallback ==
    /\ pc = "circle"
    /\ calls' = calls \cup {"_coords_circle", "convert_case_to_internal_format"}
    /\ ret' = _coords_circle(case)
    /\ pc' = "done"
    /\ UNCHANGED <<fn, built, case, coordsArg, env, fs, nread, x, y, failure, raised, args, fig>>

NoArgs == [width |-> 0, height |-> 0, keep_obj |-> FALSE, obj_text |-> ""]
NoFig == [annotations |-> <<>>, data |-> <<>>, width |-> 0, height |-> 0]

InitLayout ==
    /\ fn = "_get_coords" /\ pc = "call"
    /\ case \in Cases
    /\ coordsArg \in CoordsArgs(case)
    /\ env \in Envs
    /\ calls = {}
    /\ fs = NoFiles
    /\ nread = 0 /\ x = <<>> /\ y = <<>>
    /\ failure = "none" /\ raised = "none"
    /\ ret = NoMap
    /\ args = NoArgs /\ built = NoFig /\ fig = NoFig

NextLayout ==
    \/ _get_coords
    \/ sfdp_mktemp
    \/ sfdp_write
    \/ sfdp_launch
    \/ sfdp_tool_exit
    \/ sfdp_parse_line
    \/ sfdp_finish
    \/ get_coords_fallback

SpecLayout == InitLayout /\ [][NextLayout]_vars

-----------------------------------------------------------------------------
(* Properties of the layout resolver, checked under SpecLayout *)

\* The call of _get_coords returned (did not raise) with coords=None.
LayoutReturned == fn = "_get_coords" /\ pc = "done" /\ raised = "none" /\ ~coordsArg.given

ByCircle == LayoutReturned /\ "_coords_circle" \in calls
BySfdp == LayoutReturned /\ "_coords_circle" \notin calls

\* Rank of bus b in ascending identifier order, 0-based.
Rank(b) == Cardinality({ a \in BusIds(case) : a < b })

\* The angle of a circle coordinate in degrees, when that is a whole number.
Degrees(t) == (360 * t.num) \div t.den

\* C4: for a network of n >= 1 buses the circular layout returns one coordinate
\* per bus identifier and no other; the bus of rank k in ascending identifier
\* order sits at angle 2*pi*k/n on the circle of radius 100, as the pair
\* (100*sin, 100*cos); three buses sit at 0, 120 and 240 degrees in ascending
\* identifier order.
C4_CircleLayout ==
    (ByCircle /\ numbuses(case) >= 1) =>
        /\ DOMAIN ret = BusIds(case)
        /\ \A b \in BusIds(case) :
             /\ ret[b][1] = [f |-> "sin", r |-> 100, num |-> Rank(b), den |-> numbuses(case)]
             /\ ret[b][2] = [f |-> "cos", r |-> 100, num |-> Rank(b), den |-> numbuses(case)]
        /\ numbuses(case) = 3 =>
             \A b \in BusIds(case) : Degrees(ret[b][1]) = 120 * Rank(b)

\* C4's case: three buses, not in ascending order in the case file, laid out
\* on the circle.
C4_Witness ==
    /\ ByCircle /\ numbuses(case) = 3
    /\ case.bus[1] > case.bus[2]
    /\ \E b \in BusIds(case) : Degrees(ret[b][2]) = 240

\* C5: with coords=None the resolver falls back to the circular layout when,
\* and only when, the force-directed strategy failed because the tool was not
\* found or exited non-zero; then nothing is raised; any other failure leaves
\* _get_coords as the exception it raised, with no fallback.
C5_FallbackOnlyOnToolFailure ==
    (fn = "_get_coords" /\ pc = "done" /\ ~coordsArg.given) =>
        /\ ("_coords_circle" \in calls) <=> (failure \in {"tool_not_found", "tool_nonzero"})
        /\ failure \in {"tool_not_found", "tool_nonzero"} => raised = "none"
        /\ failure \notin {"none", "tool_not_found", "tool_nonzero"} => raised # "none"

\* C7 as stated: whenever the resolver returns by either strategy, the map has
\* exactly one entry for every bus identifier and no other entry.
C7_CoversEveryBus ==
    LayoutReturned => DOMAIN ret = BusIds(case)

\* C7, amended: a map returned by the circular strategy has an entry for every
\* bus identifier and no other; a map returned by the force-directed strategy has
\* an entry for exactly the buses whose count is the id of a parsed node line, so
\* it covers every bus when the output names every count.
C7_CoversParsedBuses ==
    /\ ByCircle => DOMAIN ret = BusIds(case)
    /\ BySfdp =>
         /\ DOMAIN ret \subseteq BusIds(case)
         /\ \A b \in BusIds(case) : b \in DOMAIN ret <=> IDtoCountmap(case)[b] \in DOMAIN x
         /\ DOMAIN x = 1..numbuses(case) => DOMAIN ret = BusIds(case)

\* C7's case: the force-directed strategy returned a map for a tool output
\* that names some bus counts and not others.
C7_Witness ==
    /\ BySfdp /\ numbuses(case) >= 2
    /\ DOMAIN ret # {} /\ DOMAIN ret # BusIds(case)
    /\ \E i \in 1..numbuses(case) : case.bus[i] # i

\* C8: the temporary directory and g.gv exist for the whole of the tool's run,
\* and exist no longer once the with block is left, by whatever path:
\* normal return, tool not found, non-zero exit, failed write.
C8_TempFileScoped ==
    /\ pc = "tool" => fs.dir /\ fs.file /\ fs.text = GraphLines(case)
    /\ pc \in {"parse", "circle", "done"} => ~fs.dir /\ ~fs.file

\* C8's case: the tool ran on the file and exited non-zero, and the file is gone.
C8_Witness ==
    /\ pc = "circle" /\ failure = "tool_nonzero"
    /\ "subprocess.check_output" \in calls
    /\ ~fs.dir /\ ~fs.file

-----------------------------------------------------------------------------
(* Python values held by style attributes, and float() on them *)

\* Numbers are in units of 1/10000: 1.0 is 10000. The inputs are multiples of
\* 0.01, so the products by 1.08 and 1.12 are exact.

\* A style value: t is its Python type, v its numeric value where it has one,
\* items the elements of a list or tuple.
Val(t, v) == [t |-> t, v |-> v, items |-> <<>>]
PyNone == Val("None", 0)
PyFloat(v) == Val("float", v)
PyList(items) == [t |-> "list", v |-> 0, items |-> items]
PyTuple(items) == [t |-> "tuple", v |-> 0, items |-> items]

\* float(v): the number of a float or of a numeric string, nan for nan;
\* TypeError for None, a list or a tuple; ValueError for other text;
\* OverflowError for an int too large for a float.
float(val) ==
    CASE val.t = "float"       -> [exc |-> "none", nan |-> FALSE, v |-> val.v]
      [] val.t = "str_numeric" -> [exc |-> "none", nan |-> FALSE, v |-> val.v]
      [] val.t = "nan"         -> [exc |-> "none", nan |-> TRUE, v |-> 0]
      [] val.t = "None"        -> [exc |-> "TypeError", nan |-> FALSE, v |-> 0]
      [] val.t = "list"        -> [exc |-> "TypeError", nan |-> FALSE, v |-> 0]
      [] val.t = "tuple"       -> [exc |-> "TypeError", nan |-> FALSE, v |-> 0]
      [] val.t = "str_other"   -> [exc |-> "ValueError", nan |-> FALSE, v |-> 0]
      [] val.t = "int_huge"    -> [exc |-> "OverflowError", nan |-> FALSE, v |-> 0]

Num(v) == [nan |-> FALSE, v |-> v]
NaN == [nan |-> TRUE, v |-> 0]

\* Python's max(a, b) and min(a, b): a unless b compares greater (less); every
\* comparison with nan is false.
PyMax(a, b) == IF ~a.nan /\ ~b.nan /\ b.v > a.v THEN b ELSE a
PyMin(a, b) == IF ~a.nan /\ ~b.nan /\ b.v < a.v THEN b ELSE a

\* f * m / 100 on floats: nan stays nan.
Scale(f, m) == IF f.nan THEN NaN ELSE Num((f.v * m) \div 100)

ToVal(n) == IF n.nan THEN Val("nan", 0) ELSE PyFloat(n.v)

-----------------------------------------------------------------------------
(* _tune_traces, lines 225-252 *)

\* line 236: oldw * 1.08 clamped to [0.8, 2.2]; default 1.0
LineScale == 108
LineMin == 8000
LineMax == 22000
LineDefault == 10000
\* line 246-247: fv * 1.12 clamped to [6.0, 18.0]; default 6.0
MarkerScale == 112
MarkerMin == 60000
MarkerMax == 180000
MarkerDefault == 60000

\* "lines" in mode, "markers" in mode
HasLines(mode) == mode \in {"lines", "lines+markers"}
HasMarkers(mode) == mode \in {"markers", "lines+markers"}

\* lines 232-236: every exception of float() is caught (except Exception).
tune_width(w) ==
    LET f == float(w)
        oldw == IF f.exc # "none" THEN Num(LineDefault) ELSE [nan |-> f.nan, v |-> f.v]
    IN  ToVal(PyMin(PyMax(Num(LineMin), Scale(oldw, LineScale)), Num(LineMax)))

\* lines 242-247: bump(v) catches TypeError and ValueError only; any other
\* exception of float() leaves bump.
bump(val) ==
    LET f == float(val)
    IN  IF f.exc \in {"TypeError", "ValueError"}
        THEN [exc |-> "none",
              val |-> ToVal(PyMin(PyMax(Num(MarkerMin), Scale(Num(MarkerDefault), MarkerScale)),
                                  Num(MarkerMax)))]
        ELSE IF f.exc # "none"
        THEN [exc |-> f.exc, val |-> val]
        ELSE [exc |-> "none",
              val |-> ToVal(PyMin(PyMax(Num(MarkerMin), Scale([nan |-> f.nan, v |-> f.v], MarkerScale)),
                                  Num(MarkerMax)))]

\* lines 249-252: a list or tuple is bumped element by element into a new
\* list, assigned only if no element raised; anything else is bumped whole.
tune_size(s) ==
    IF s.t \in {"list", "tuple"}
    THEN LET r == [ i \in 1..Len(s.items) |-> bump(s.items[i]) ]
         IN  IF \E i \in 1..Len(r) : r[i].exc # "none"
             THEN [exc |-> r[CHOOSE i \in 1..Len(r) :
                              r[i].exc # "none" /\ \A j \in 1..(i - 1) : r[j].exc = "none"].exc,
                   val |-> s]
             ELSE [exc |-> "none", val |-> PyList([ i \in 1..Len(r) |-> r[i].val ])]
    ELSE bump(s)

\* The body of the loop for one trace: the line width first, then the marker
\* size; an exception of the marker part leaves the new line width in place.
tune_trace(tr) ==
    LET w == IF HasLines(tr.mode) THEN tune_width(tr.width) ELSE tr.width
        m == IF HasMarkers(tr.mode) THEN tune_size(tr.size) ELSE [exc |-> "none", val |-> tr.size]
    IN  [exc |-> m.exc, tr |-> [mode |-> tr.mode, width |-> w, size |-> m.val]]

\* for tr in fig.data: the traces in order, up to the first that raises.
RECURSIVE tune_from(_, _)
tune_from(data, i) ==
    IF i > Len(data) THEN [exc |-> "none", data |-> data]
    ELSE LET r == tune_trace(data[i])
             d == [data EXCEPT ![i] = r.tr]
         IN  IF r.exc # "none" THEN [exc |-> r.exc, data |-> d]
             ELSE tune_from(d, i + 1)

_tune_traces ==
    /\ fn = "_tune_traces" /\ pc = "call"
    /\ LET r == tune_from(fig.data, 1)
       IN  /\ fig' = [fig EXCEPT !.data = r.data]
           /\ raised' = r.exc
    /\ pc' = "done"
    /\ UNCHANGED <<fn, built, case, coordsArg, env, calls, fs, nread, x, y, failure, ret, args>>

-----------------------------------------------------------------------------
(* _restyle_annotations, lines 194-222 *)

\* lines 203-212 (the colour spans and the non-ASCII signs written plainly)
Legend == <<"No lines turned off", "", "<b>Bus colors</b>",
            "Black: generation <= 75 & load < 50",
            "Blue: generation <= 75 & load >= 50",
            "Purple: generation > 75",
            "Orange: generation > 150",
            "Red: generation > 500">>

\* f"<b>{obj_text}</b>"
Bold(t) == "<b>" \o t \o "</b>"

\* An annotation: its text as the lines joined by "<br>", and its reference frame.
Annotation(lines, ref) == [text |-> lines, xref |-> ref, yref |-> ref]

\* The annotations are replaced by one block in paper coordinates: the
\* objective in bold and an empty line when obj_text is truthy, then the legend.
_restyle_annotations(f, obj_text) ==
    [f EXCEPT !.annotations =
        << Annotation((IF obj_text # "" THEN <<Bold(obj_text), "">> ELSE <<>>) \o Legend,
                      "paper") >>]

restyle_annotations_call ==
    /\ fn = "_restyle_annotations" /\ pc = "call"
    /\ fig' = _restyle_annotations(fig, args.obj_text)
    /\ pc' = "done"
    /\ UNCHANGED <<fn, built, case, coordsArg, env, calls, fs, nread, x, y, failure, raised, ret, args>>

-----------------------------------------------------------------------------
(* Figures *)

\* A figure has at most MaxTraces traces.
MaxTraces == 2
\* A per-element marker size has at most MaxList elements.
MaxList == 2

Trace(mode, w, sz) == [mode |-> mode, width |-> w, size |-> sz]

\* Line widths: missing, text, numeric text, negative, zero, in range, above
\* the range, nan, an int beyond the floats, a list.
WidthVals ==
    { PyNone, Val("str_other", 0), Val("str_numeric", 15000), PyFloat(0 - 10000),
      PyFloat(0), PyFloat(10000), PyFloat(30000), Val("nan", 0), Val("int_huge", 0),
      PyList(<<>>) }

\* Scalar marker sizes, likewise.
SizeScalars ==
    { PyNone, Val("str_other", 0), Val("str_numeric", 70000), PyFloat(0 - 100000),
      PyFloat(0), PyFloat(100000), PyFloat(200000), Val("nan", 0), Val("int_huge", 0) }

\* Elements of a per-element marker size.
SizeElems ==
    { PyNone, Val("str_other", 0), PyFloat(100000), PyFloat(200000), Val("int_huge", 0) }

SizeSeqs == UNION { [1..n -> SizeElems] : n \in 0..MaxList }

SizeVals == SizeScalars \cup { PyList(q) : q \in SizeSeqs } \cup { PyTuple(q) : q \in SizeSeqs }

\* Traces: edges, nodes, both, and a text trace whose style is out of range.
Traces ==
    { Trace("lines", w, PyNone) : w \in WidthVals }
    \cup { Trace("markers", PyNone, sz) : sz \in SizeVals }
    \cup { Trace("lines+markers", w, sz) :
             w \in { PyFloat(10000), Val("int_huge", 0) },
             sz \in { PyFloat(100000), Val("int_huge", 0), PyList(<<Val("int_huge", 0)>>) } }
    \cup { Trace("text", PyFloat(50000), PyFloat(500000)) }

TraceSeqs == UNION { [1..n -> Traces] : n \in 0..MaxTraces }

\* Figures as the Figure Builder may return them: with or without an "OBJ"
\* annotation, with edge and node traces, at the builder's own size.
BaseAnnotations ==
    { <<>>,
      << Annotation(<<"OBJ 12.5">>, "xy") >>,
      << Annotation(<<"3 lines off">>, "xy"), Annotation(<<"OBJ 12.5">>, "xy") >> }

BaseData ==
    { <<>>,
      << Trace("lines", PyFloat(10000), PyNone),
         Trace("markers", PyNone, PyList(<<PyFloat(100000), PyFloat(200000)>>)) >> }

BaseFigs == { [annotations |-> a, data |-> d, width |-> 700, height |-> 450] :
                a \in BaseAnnotations, d \in BaseData }

InitStyle ==
    /\ pc = "call"
    /\ \/ /\ fn = "_tune_traces"
          /\ \E d \in TraceSeqs : fig = [NoFig EXCEPT !.data = d]
          /\ args = NoArgs
       \/ /\ fn = "_restyle_annotations"
          /\ fig \in BaseFigs
          /\ \E t \in {"", "OBJ 12.5"} : args = [NoArgs EXCEPT !.obj_text = t]
    /\ case = [bus |-> <<>>, branches |-> {}]
    /\ coordsArg = [given |-> FALSE, map |-> NoMap]
    /\ env = [tmp |-> TRUE, disk |-> TRUE, sfdp |-> "works"]
    /\ calls = {}
    /\ fs = NoFiles
    /\ nread = 0 /\ x = <<>> /\ y = <<>>
    /\ failure = "none" /\ raised = "none"
    /\ ret = NoMap
    /\ built = fig

NextStyle ==
    \/ _tune_traces
    \/ restyle_annotations_call

SpecStyle == InitStyle /\ [][NextStyle]_vars

-----------------------------------------------------------------------------
(* Properties of the styling helpers, checked under SpecStyle *)

TuneDone == fn = "_tune_traces" /\ pc = "done"

InRange(val, lo, hi) == val.t = "float" /\ lo <= val.v /\ val.v <= hi

SizeInRange(sz) ==
    IF sz.t \in {"list", "tuple"}
    THEN \A i \in 1..Len(sz.items) : InRange(sz.items[i], 60000, 180000)
    ELSE InRange(sz, 60000, 180000)

\* C2: after _tune_traces ran, every trace whose mode includes lines has a line
\* width within [0.8, 2.2] and every trace whose mode includes markers has every
\* marker size within [6.0, 18.0], whatever the style values were.
C2_StyleInRange ==
    TuneDone =>
        \A i \in 1..Len(fig.data) :
            /\ HasLines(fig.data[i].mode) => InRange(fig.data[i].width, 8000, 22000)
            /\ HasMarkers(fig.data[i].mode) => SizeInRange(fig.data[i].size)

\* float() does not convert the value.
Unconvertible(val) == val.t \in {"None", "str_other", "list", "tuple", "int_huge"}

\* C9: _tune_traces never raises on malformed style data: a width that is
\* missing or not convertible counts as 1.0 before the scaling by 1.08, a size
\* (or element) that is missing or not convertible counts as 6.0 before the
\* scaling by 1.12, and every trace is processed.
C9_NeverRaises ==
    TuneDone =>
        /\ raised = "none"
        /\ Len(fig.data) = Len(built.data)
        /\ \A i \in 1..Len(fig.data) :
             /\ (HasLines(built.data[i].mode) /\ Unconvertible(built.data[i].width))
                  => fig.data[i].width = PyFloat(10800)
             /\ (HasMarkers(built.data[i].mode) /\ built.data[i].size.t \notin {"list", "tuple"}
                   /\ Unconvertible(built.data[i].size))
                  => fig.data[i].size = PyFloat(67200)
             /\ (HasMarkers(built.data[i].mode) /\ built.data[i].size.t \in {"list", "tuple"})
                  => /\ fig.data[i].size.t = "list"
                     /\ Len(fig.data[i].size.items) = Len(built.data[i].size.items)
                     /\ \A j \in 1..Len(built.data[i].size.items) :
                          Unconvertible(built.data[i].size.items[j])
                            => fig.data[i].size.items[j] = PyFloat(67200)

-----------------------------------------------------------------------------
(* Collaborators: the Coordinate Normalizer and the Figure Builder *)

\* converters.grbmap_coords_from_dict: fails when a bus has no coordinate
\* (or no map is given at all), else maps the coordinates to the network.
grbmap_coords_from_dict_ok(c, a) == a.given /\ BusIds(c) \subseteq DOMAIN a.map

\* grbgraphical.generate_violations_figure: some base figure.
generate_figure == BaseFigs

-----------------------------------------------------------------------------
(* The orchestrators *)

\* A slip: the coordinates resolved as solution_plot means to, by the layout
\* resolver when none are given.
violation_plot_coords_resolved(c, a) ==
    IF a.given THEN [calls |-> {}, coords |-> a]
    ELSE [calls |-> {"_get_coords", "_coords_from_sfdp", "_coords_circle"},
          coords |-> [given |-> TRUE, map |-> _coords_circle(c)]]

\* line 117: the coords argument is handed to the normalizer as it is.
violation_plot_coords(c, a) == [calls |-> {}, coords |-> a]

\* lines 120-122: the Figure Builder's figure is returned as it is.
violation_plot_result(f) == f

\* lines 85-122: convert the case, map the coordinates, build the figure of
\* the violations, return it.
violation_plot ==
    /\ fn = "violation_plot" /\ pc = "call"
    /\ LET r == violation_plot_coords(case, coordsArg)
       IN  /\ ret' = r.coords.map
           /\ IF grbmap_coords_from_dict_ok(case, r.coords)
              THEN /\ calls' = calls \cup r.calls \cup
                                 {"convert_case_to_internal_format", "grbmap_coords_from_dict",
                                  "generate_violations_figure"}
                   /\ \E f \in generate_figure :
                        /\ built' = f
                        /\ fig' = violation_plot_result(f)
                   /\ UNCHANGED raised
              ELSE /\ calls' = calls \cup r.calls \cup
                                 {"convert_case_to_internal_format", "grbmap_coords_from_dict"}
                   /\ raised' = "grbmap_coords_from_dict"
                   /\ UNCHANGED <<built, fig>>
    /\ pc' = "done"
    /\ UNCHANGED <<fn, case, coordsArg, env, fs, nread, x, y, failure, args>>

\* lines 15-82. The def statement is not Python: the parameter `solution`
\* (line 18) has no default and follows `coords=None` (line 17), and line 55
\* tests `if coords = None:`. The compiler rejects the file at line 18 (and, with
\* that repaired, at line 55) with SyntaxError, so no body of solution_plot ever
\* runs: whoever imports the module to call it gets the SyntaxError.
solution_plot ==
    /\ fn = "solution_plot" /\ pc = "call"
    /\ raised' = "SyntaxError"
    /\ pc' = "done"
    /\ UNCHANGED <<fn, built, case, coordsArg, env, calls, fs, nread, x, y, failure, ret, args, fig>>

PlotArgs == [ width : {1200, 640}, height : {900, 480}, keep_obj : BOOLEAN, obj_text : {""} ]

InitPlot ==
    /\ pc = "call"
    /\ case \in Cases
    /\ coordsArg \in CoordsArgs(case)
    /\ env \in Envs
    /\ \/ fn = "solution_plot" /\ args \in PlotArgs
       \/ fn = "violation_plot" /\ args = NoArgs
    /\ calls = {}
    /\ fs = NoFiles
    /\ nread = 0 /\ x = <<>> /\ y = <<>>
    /\ failure = "none" /\ raised = "none"
    /\ ret = NoMap
    /\ built = NoFig /\ fig = NoFig

NextPlot ==
    \/ solution_plot
    \/ violation_plot

SpecPlot == InitPlot /\ [][NextPlot]_vars

-----------------------------------------------------------------------------
(* Properties of the orchestrators, checked under SpecPlot *)

\* C1: for a case with at least one bus, solution_plot called with coords=None
\* while the layout tool is not installed does not raise, and returns a figure
\* whose width and height are the width and height arguments.
C1_FigureWithoutTool ==
    (fn = "solution_plot" /\ pc = "done" /\ ~coordsArg.given
       /\ env.sfdp = "missing" /\ numbuses(case) >= 1) =>
        /\ raised = "none"
        /\ fig.width = args.width /\ fig.height = args.height

\* C3: solution_plot ends with one annotation block; with keep_obj=False the
\* block holds the legend and no objective text; with keep_obj=True the block's
\* first line is the bolded text of the base figure's "OBJ" annotation, when
\* there is one.
C3_ObjectiveAnnotation ==
    (fn = "solution_plot" /\ pc = "done") =>
        /\ raised = "none"
        /\ Len(fig.annotations) = 1
        /\ ~args.keep_obj => fig.annotations[1].text = Legend
        /\ (args.keep_obj /\ \E i \in 1..Len(built.annotations) :
                               built.annotations[i].text = <<"OBJ 12.5">>)
             => fig.annotations[1].text[1] = "<b>OBJ 12.5</b>"

LayoutEngine == {"_get_coords", "_coords_from_sfdp", "_coords_circle", "subprocess.check_output"}

\* C6: violation_plot never invokes the Layout Engine or the external tool,
\* whatever the case, the coords and the environment: the caller's coords go to
\* the normalizer as they are, and the figure returned is the Figure Builder's,
\* with no annotation rewrite, trace tuning or layout cosmetics.
C6_ViolationPlotRaw ==
    fn = "violation_plot" =>
        /\ calls \cap LayoutEngine = {}
        /\ ~fs.dir /\ ~fs.file
        /\ pc = "done" =>
             /\ "grbmap_coords_from_dict" \in calls
             /\ ret = coordsArg.map
             /\ raised = "none" =>
                  /\ "generate_violations_figure" \in calls
                  /\ built \in BaseFigs
                  /\ fig = built
             /\ raised # "none" => fig = NoFig

\* C6's case: violation_plot returned a figure that has an "OBJ" annotation
\* and traces, for a case of several buses, with no layout tool installed.
C6_Witness ==
    /\ fn = "violation_plot" /\ pc = "done" /\ raised = "none"
    /\ numbuses(case) >= 2 /\ env.sfdp = "missing"
    /\ Len(fig.annotations) = 2 /\ Len(fig.data) = 2

-----------------------------------------------------------------------------
(* Every entry point together *)

Init == InitLayout \/ InitStyle \/ InitPlot

Next == NextLayout \/ NextStyle \/ NextPlot

Spec == Init /\ [][Next]_vars

=============================================================================
